---- MODULE Spec2Model ----
(***************************************************************************)
(* The event-store service of polished-manual-app-builder                  *)
(* (services/event-store/src/main.rs): the events and snapshots tables,    *)
(* the append, read and snapshot handlers, and the two background tasks.   *)
(* Every SQL statement is one atomic step; a handler is suspended between  *)
(* its statements (each `.await`), where other tasks interleave.           *)
(*                                                                         *)
(* Representation.  A string is a sequence of runs [c, n]: the character c *)
(* repeated n times, so that ids of 255 and 256 characters are values of   *)
(* the model.  Option<T> is a sequence of length 0 (None) or 1 (Some).     *)
(* Uuid::new_v4() is a token unique to the request that draws it.          *)
(***************************************************************************)
EXTENDS Integers, Sequences, FiniteSets, TLC

VARIABLES
    events,      \* rows of table events
    snapshots,   \* rows of table snapshots
    now,         \* the clock, Utc::now()
    app,         \* app[p]: the append_event request task p
    rd,          \* the get_stream_events request task
    snap,        \* snap[c]: the create_snapshot request task c
    latest,      \* the get_latest_snapshot request task
    sched,       \* the snapshot_scheduler task
    sweep        \* the stream_archiver task

vars == <<events, snapshots, now, app, rd, snap, latest, sched, sweep>>

-----------------------------------------------------------------------------
(* Bounds of the model *)

NumAppenders == 3
NumIdAppenders == 2
NumReadAppenders == 2
NumServiceAppenders == 2
NumSchedulerAppenders == 2
NumSnapshotters == 2
NumServiceSnapshotters == 1
MaxClock == 2
MaxExpected == 1
MaxFrom == 4

Appenders == 1..NumAppenders
Snapshotters == 1..NumSnapshotters

-----------------------------------------------------------------------------
(* Strings *)

Run(c, n) == [c |-> c, n |-> n]

\* Characters of the model.  "e_acute" stands for U+00E9, a letter outside
\* ASCII; "euro" for U+20AC, a symbol outside ASCII.
AsciiAlphanumeric == {"a", "p", "w", "9"}
UnicodeAlphabetic == {"e_acute"}

\* char::is_alphanumeric: Unicode Alphabetic or Numeric, not only ASCII
is_alphanumeric(c) == c \in AsciiAlphanumeric \cup UnicodeAlphabetic

\* char::len_utf8
len_utf8(c) ==
    CASE c = "e_acute" -> 2
      [] c = "euro" -> 3
      [] OTHER -> 1

\* str::len: the length in bytes of the UTF-8 encoding
RECURSIVE str_len(_)
str_len(s) ==
    IF s = <<>> THEN 0
    ELSE s[1].n * len_utf8(s[1].c) + str_len(Tail(s))

\* str::chars().count(): the length in characters
RECURSIVE chars_count(_)
chars_count(s) ==
    IF s = <<>> THEN 0
    ELSE s[1].n + chars_count(Tail(s))

\* str::chars(): the characters that occur in s
chars(s) == {s[i].c : i \in {j \in 1..Len(s) : s[j].n > 0}}

MaxStreamIdLen == 255

is_valid_stream_id(stream_id) ==
    /\ str_len(stream_id) <= MaxStreamIdLen
    /\ \A c \in chars(stream_id) : is_alphanumeric(c) \/ c = "-" \/ c = "_" \/ c = "/"

\* stream_id.split('/').next(): the text before the first '/'
get_partition_key(stream_id) ==
    LET slashes == {i \in 1..Len(stream_id) : stream_id[i].c = "/" /\ stream_id[i].n > 0}
    IN  IF slashes = {} THEN stream_id
        ELSE SubSeq(stream_id, 1, (CHOOSE i \in slashes : \A j \in slashes : i <= j) - 1)

\* i64's Display, for the versions of the model
IntToStr(n) ==
    LET digits == <<"0", "1", "2", "3", "4", "5", "6", "7", "8", "9">>
    IN  IF n < 0 THEN "-" \o digits[(-n) + 1] ELSE digits[n + 1]

-----------------------------------------------------------------------------
(* Stream ids and requests *)

IdA == <<Run("a", 1)>>
IdPW == <<Run("p", 1), Run("/", 1), Run("w", 1)>>
IdPunct == <<Run("a", 1), Run("-", 1), Run("_", 1), Run("/", 1), Run("9", 1)>>
IdEmpty == <<>>
IdDollar == <<Run("$", 1)>>
IdEuro == <<Run("a", 1), Run("euro", 1)>>
Id255 == <<Run("a", MaxStreamIdLen)>>
Id256 == <<Run("a", MaxStreamIdLen + 1)>>
IdAccent == <<Run("e_acute", 1)>>
IdAccent255 == <<Run("e_acute", MaxStreamIdLen)>>

\* The ids the validation is tried on
WideIds == {IdA, IdPunct, IdEmpty, IdDollar, IdEuro, Id255, Id256, IdAccent, IdAccent255}
\* The ids of the interleaving specifications
StreamIds == {IdA, IdPW}

None == <<>>
Some(v) == <<v>>

ExpectedVersions == {None} \cup {Some(v) : v \in 0..MaxExpected}

AppendEventRequest(ids, payloads, expected) ==
    [stream_id : ids, event_type : {"Created"}, data : payloads,
     metadata : {None}, expected_version : expected]

NoRequest ==
    [stream_id |-> <<>>, event_type |-> "", data |-> "", metadata |-> None,
     expected_version |-> None]

-----------------------------------------------------------------------------
(* Errors: error.rs *)

Ok(event) == [kind |-> "Ok", message |-> <<>>, event |-> <<event>>]
Err(kind, message) == [kind |-> kind, message |-> message, event |-> <<>>]
NoResponse == [kind |-> "None", message |-> <<>>, event |-> <<>>]

\* AppError::into_response: the HTTP status of an error kind
StatusCode(kind) ==
    CASE kind = "Ok" -> 200
      [] kind = "Database" -> 500
      [] kind = "BadRequest" -> 400
      [] kind = "Conflict" -> 409
      [] kind = "NotFound" -> 404
      [] kind = "Internal" -> 500
      [] kind = "Serialization" -> 400
      [] kind = "Sql" -> 500

AppErrorKinds ==
    {"Database", "BadRequest", "Conflict", "NotFound", "Internal", "Serialization", "Sql"}

\* AppError's Display, from #[error("...: {0}")]
Display(kind, message) ==
    <<CASE kind = "Database" -> "Database error: "
        [] kind = "BadRequest" -> "Bad request: "
        [] kind = "Conflict" -> "Conflict: "
        [] kind = "NotFound" -> "Not found: "
        [] kind = "Internal" -> "Internal error: "
        [] kind = "Serialization" -> "Serialization error: "
        [] kind = "Sql" -> "SQL error: ">> \o message

\* AppError::into_response: the short text of an error kind
error_message(kind) ==
    CASE kind = "Database" -> "Database error"
      [] kind = "BadRequest" -> "Bad request"
      [] kind = "Conflict" -> "Conflict"
      [] kind = "NotFound" -> "Not found"
      [] kind = "Internal" -> "Internal error"
      [] kind = "Serialization" -> "Serialization error"
      [] kind = "Sql" -> "Database error"

into_response_406(kind, message) ==
    [status |-> IF kind = "Conflict" THEN 406 ELSE StatusCode(kind),
     body |-> [error |-> error_message(kind), message |-> Display(kind, message)]]

\* AppError::into_response: (status, Json({"error": ..., "message": ...}))
into_response(kind, message) ==
    [status |-> StatusCode(kind),
     body |-> [error |-> error_message(kind), message |-> Display(kind, message)]]

UniqueViolationText == "duplicate key value violates unique constraint"
ColumnDecodeText == "error occurred while decoding column"
StorageFailureText == "storage failure"

-----------------------------------------------------------------------------
(* Table events: run_migrations, and the statements on it *)

EventsUniqueViolationNever(table, row) == FALSE

\* UNIQUE(stream_id, version), and the primary key id
EventsUniqueViolation(table, row) ==
    \E e \in table :
        \/ e.id = row.id
        \/ e.stream_id = row.stream_id /\ e.version = row.version

StreamEvents(table, stream_id) == {e \in table : e.stream_id = stream_id}

Max(S) == CHOOSE m \in S : \A k \in S : k <= m

\* SELECT MAX(version) FROM events WHERE stream_id = $1, and unwrap_or(0)
get_stream_version(table, stream_id) ==
    IF StreamEvents(table, stream_id) = {} THEN 0
    ELSE Max({e.version : e \in StreamEvents(table, stream_id)})

-----------------------------------------------------------------------------
(* append_event *)

IdleAppend ==
    [pc |-> "idle", request |-> NoRequest, current_version |-> None,
     new_version |-> 0, now |-> 0, response |-> NoResponse]

ExpectedMismatchNever(expected_version, current_version) == FALSE

\* if let Some(expected) = request.expected_version { if current_version != expected
ExpectedMismatch(expected_version, current_version) ==
    expected_version # None /\ current_version # expected_version[1]

ConflictMessageSwapped(expected, current_version) ==
    <<"Version conflict: ", "expected ", IntToStr(current_version), ", got ",
      IntToStr(expected)>>

\* format!("Version conflict: expected {}, got {}", expected, current_version)
ConflictMessage(expected, current_version) ==
    <<"Version conflict: ", "expected ", IntToStr(expected), ", got ",
      IntToStr(current_version)>>

NewVersionSkips(current_version) == current_version + 2

\* let new_version = current_version + 1
NewVersion(current_version) == current_version + 1

\* The row of the INSERT, and the Event returned.  The INSERT names no column
\* archived: where the table has one, the row takes its default, false.
EventRow(p) ==
    [id |-> p,
     stream_id |-> app[p].request.stream_id,
     event_type |-> app[p].request.event_type,
     data |-> app[p].request.data,
     metadata |-> app[p].request.metadata,
     version |-> app[p].new_version,
     created_at |-> app[p].now,
     partition_key |-> get_partition_key(app[p].request.stream_id),
     archived |-> FALSE]

\* The handler up to its first await: the validation of stream_id.  Request
\* tasks are interchangeable, so they are started in the order of their numbers.
AppendBegin(p, request) ==
    /\ app[p].pc = "idle"
    /\ \A q \in Appenders : q < p => app[q].pc # "idle"
    /\ app' = [app EXCEPT ![p] =
            IF ~is_valid_stream_id(request.stream_id)
            THEN [@ EXCEPT !.pc = "done", !.request = request,
                           !.response = Err("BadRequest", <<"Invalid stream_id format">>)]
            ELSE [@ EXCEPT !.pc = "read", !.request = request]]
    /\ UNCHANGED <<events, snapshots, now, rd, snap, latest, sched, sweep>>

\* AppendRead with Utc::now() taken before the await of get_stream_version: the
\* instant is any one up to that of the read
AppendReadClockFirst(p) ==
    /\ app[p].pc = "read"
    /\ \E instant \in 0..now :
       LET current_version == get_stream_version(events, app[p].request.stream_id)
           expected_version == app[p].request.expected_version
       IN  app' = [app EXCEPT ![p] =
               IF ExpectedMismatch(expected_version, current_version)
               THEN [@ EXCEPT !.pc = "done",
                              !.current_version = Some(current_version),
                              !.response = Err("Conflict",
                                  ConflictMessage(expected_version[1], current_version))]
               ELSE [@ EXCEPT !.pc = "insert",
                              !.current_version = Some(current_version),
                              !.new_version = NewVersion(current_version),
                              !.now = instant]]
    /\ UNCHANGED <<events, snapshots, now, rd, snap, latest, sched, sweep>>

\* get_stream_version succeeds; the expected_version check; new_version, now
AppendRead(p) ==
    /\ app[p].pc = "read"
    /\ LET current_version == get_stream_version(events, app[p].request.stream_id)
           expected_version == app[p].request.expected_version
       IN  app' = [app EXCEPT ![p] =
               IF ExpectedMismatch(expected_version, current_version)
               THEN [@ EXCEPT !.pc = "done",
                              !.current_version = Some(current_version),
                              !.response = Err("Conflict",
                                  ConflictMessage(expected_version[1], current_version))]
               ELSE [@ EXCEPT !.pc = "insert",
                              !.current_version = Some(current_version),
                              !.new_version = NewVersion(current_version),
                              !.now = now]]
    /\ UNCHANGED <<events, snapshots, now, rd, snap, latest, sched, sweep>>

\* get_stream_version fails: map_err(|e| AppError::Database(e.to_string()))?
AppendReadFails(p) ==
    /\ app[p].pc = "read"
    /\ app' = [app EXCEPT ![p] =
            [@ EXCEPT !.pc = "done", !.response = Err("Database", <<StorageFailureText>>)]]
    /\ UNCHANGED <<events, snapshots, now, rd, snap, latest, sched, sweep>>

\* The INSERT succeeds, or is rejected by a constraint of the table: either way
\* map_err turns the error into AppError::Database
AppendInsert(p) ==
    /\ app[p].pc = "insert"
    /\ IF EventsUniqueViolation(events, EventRow(p))
       THEN /\ app' = [app EXCEPT ![p] =
                    [@ EXCEPT !.pc = "done",
                              !.response = Err("Database", <<UniqueViolationText>>)]]
            /\ UNCHANGED events
       ELSE /\ events' = events \cup {EventRow(p)}
            /\ app' = [app EXCEPT ![p] =
                    [@ EXCEPT !.pc = "done", !.response = Ok(EventRow(p))]]
    /\ UNCHANGED <<snapshots, now, rd, snap, latest, sched, sweep>>

AppendInsertFailsAfterWrite(p) ==
    /\ app[p].pc = "insert"
    /\ ~EventsUniqueViolation(events, EventRow(p))
    /\ events' = events \cup {EventRow(p)}
    /\ app' = [app EXCEPT ![p] =
            [@ EXCEPT !.pc = "done", !.response = Err("Database", <<StorageFailureText>>)]]
    /\ UNCHANGED <<snapshots, now, rd, snap, latest, sched, sweep>>

\* The INSERT fails for another reason (connection, pool, timeout): nothing is
\* written, the statement is rolled back
AppendInsertFails(p) ==
    /\ app[p].pc = "insert"
    /\ app' = [app EXCEPT ![p] =
            [@ EXCEPT !.pc = "done", !.response = Err("Database", <<StorageFailureText>>)]]
    /\ UNCHANGED <<events, snapshots, now, rd, snap, latest, sched, sweep>>

AppendSteps(p) ==
    \/ AppendRead(p)
    \/ AppendReadFails(p)
    \/ AppendInsert(p)
    \/ AppendInsertFails(p)

-----------------------------------------------------------------------------
(* get_stream_events *)

DefaultLimit == 100
MaxLimit == 1000

Min(a, b) == IF a <= b THEN a ELSE b

unwrap_or(option, default) == IF option = None THEN default ELSE option[1]

EventWithoutData(row) ==
    [id |-> row.id, stream_id |-> row.stream_id, event_type |-> row.event_type,
     data |-> "", metadata |-> row.metadata, version |-> row.version,
     created_at |-> row.created_at]

\* struct Event, from the columns the SELECT names
Event(row) ==
    [id |-> row.id, stream_id |-> row.stream_id, event_type |-> row.event_type,
     data |-> row.data, metadata |-> row.metadata, version |-> row.version,
     created_at |-> row.created_at]

\* let order_clause = if direction == "backward" { "DESC" } else { "ASC" }
order_clause_ignores_direction(direction) == "ASC"

order_clause(direction) ==
    IF unwrap_or(direction, "forward") = "backward" THEN "DESC" ELSE "ASC"

\* query.limit.unwrap_or(100).min(1000)
query_limit(limit) == Min(unwrap_or(limit, DefaultLimit), MaxLimit)

Before(order, v, w) == IF order = "DESC" THEN v >= w ELSE v <= w

\* ORDER BY version ASC | DESC
RECURSIVE OrderByVersion(_, _)
OrderByVersion(rows, order) ==
    IF rows = {} THEN <<>>
    ELSE LET first == CHOOSE r \in rows : \A o \in rows : Before(order, r.version, o.version)
         IN  <<first>> \o OrderByVersion(rows \ {first}, order)

\* WHERE stream_id = $1 AND version >= $2
WhereStreamFromExclusive(table, stream_id, from_version) ==
    {e \in table : e.stream_id = stream_id /\ e.version > from_version}

WhereStreamFrom(table, stream_id, from_version) ==
    {e \in table : e.stream_id = stream_id /\ e.version >= from_version}

\* LIMIT $3
Limit(rows, limit) == SubSeq(rows, 1, Min(limit, Len(rows)))

NegativeLimitText == "LIMIT must not be negative"

ReadOk(list) == [kind |-> "Ok", message |-> <<>>, events |-> list]
ReadErr(kind, message) == [kind |-> kind, message |-> message, events |-> <<>>]

\* get_stream_events with AND archived = false in its statement
get_stream_events_unarchived(table, stream_id, query) ==
    LET from_version == unwrap_or(query.from_version, 0)
        limit == query_limit(query.limit)
        rows == Limit(OrderByVersion({e \in WhereStreamFrom(table, stream_id, from_version) :
                                         ~e.archived},
                                     order_clause(query.direction)), limit)
    IN  IF limit < 0 THEN ReadErr("Database", <<NegativeLimitText>>)
        ELSE ReadOk([i \in 1..Len(rows) |-> Event(rows[i])])

\* The statement of get_stream_events and the mapping of its rows to Events.
\* PostgreSQL rejects a negative LIMIT; map_err makes it AppError::Database.
get_stream_events(table, stream_id, query) ==
    LET from_version == unwrap_or(query.from_version, 0)
        limit == query_limit(query.limit)
        rows == Limit(OrderByVersion(WhereStreamFrom(table, stream_id, from_version),
                                     order_clause(query.direction)), limit)
    IN  IF limit < 0 THEN ReadErr("Database", <<NegativeLimitText>>)
        ELSE ReadOk([i \in 1..Len(rows) |-> Event(rows[i])])

EventsQuery(from_versions, limits, directions) ==
    [from_version : from_versions, limit : limits, direction : directions]

NoQuery == [from_version |-> None, limit |-> None, direction |-> None]

IdleRead ==
    [pc |-> "idle", stream_id |-> <<>>, query |-> NoQuery,
     response |-> [kind |-> "None", message |-> <<>>, events |-> <<>>]]

\* The handler up to its await: the path and the query are extracted
ReadBegin(stream_id, query) ==
    /\ rd.pc = "idle"
    /\ rd' = [rd EXCEPT !.pc = "query", !.stream_id = stream_id, !.query = query]
    /\ UNCHANGED <<events, snapshots, now, app, snap, latest, sched, sweep>>

\* The SELECT is answered
ReadQuery ==
    /\ rd.pc = "query"
    /\ rd' = [rd EXCEPT !.pc = "done",
                        !.response = get_stream_events(events, rd.stream_id, rd.query)]
    /\ UNCHANGED <<events, snapshots, now, app, snap, latest, sched, sweep>>

\* The SELECT fails (connection, pool, timeout)
ReadQueryFails ==
    /\ rd.pc = "query"
    /\ rd' = [rd EXCEPT !.pc = "done",
                        !.response = ReadErr("Database", <<StorageFailureText>>)]
    /\ UNCHANGED <<events, snapshots, now, app, snap, latest, sched, sweep>>

\* The SELECT is answered with a row that try_get cannot decode, on a
\* database whose columns have other types than run_migrations gives them:
\* `?` converts the sqlx::Error with From, to AppError::Sql
ReadDecodeFails ==
    /\ rd.pc = "query"
    /\ WhereStreamFrom(events, rd.stream_id, unwrap_or(rd.query.from_version, 0)) # {}
    /\ query_limit(rd.query.limit) > 0
    /\ rd' = [rd EXCEPT !.pc = "done",
                        !.response = ReadErr("Sql", <<ColumnDecodeText>>)]
    /\ UNCHANGED <<events, snapshots, now, app, snap, latest, sched, sweep>>

-----------------------------------------------------------------------------
(* JSON documents and the LZ4 codec *)

\* serde_json::Value, for the documents of the model: a client's document,
\* the JSON string str, or the state rebuild_stream_state makes
JsonDoc(str) ==
    [tag |-> "doc", str |-> str, events |-> <<>>, version |-> 0, reconstructed_at |-> 0]

\* serde_json::json!({"events": state, "version": up_to_version, "reconstructed_at": Utc::now()})
JsonState(state, up_to_version, reconstructed_at) ==
    [tag |-> "state", str |-> <<>>, events |-> state, version |-> up_to_version,
     reconstructed_at |-> reconstructed_at]

\* serde_json::to_vec
to_vec(value) == [json |-> value]

\* The length in bytes of to_vec(value): a string in its quotes; for a state,
\* {"events":[...],"reconstructed_at":"<timestamp>","version":N} with payloads
\* of three bytes, a timestamp of thirty and a version of one digit
json_len(value) ==
    IF value.tag = "doc" THEN str_len(value.str) + 2
    ELSE LET n == Len(value.events)
         IN  11 + (IF n = 0 THEN 0 ELSE 4 * n - 1) + 21 + 32 + 11 + 1 + 1

\* lz4_flex::compress
compress(bytes) == [lz4 |-> bytes]

\* The bound of get_latest_snapshot on the decompressed size: 1024 * 1024
DecompressLimit == 1048576

decompress_unbounded(data, min_uncompressed_size) == Some(data.lz4)

\* lz4_flex::decompress(&data, min_uncompressed_size): the output buffer has
\* min_uncompressed_size bytes; input that decompresses to more is an error
decompress(data, min_uncompressed_size) ==
    IF json_len(data.lz4.json) > min_uncompressed_size THEN None
    ELSE Some(data.lz4)

\* serde_json::from_slice
from_slice(bytes) == bytes.json

\* The documents of the requests: the JSON string "kv", and a JSON string
\* of DecompressLimit characters, DecompressLimit + 2 bytes long
DocKV == JsonDoc(<<Run("k", 1), Run("v", 1)>>)
DocBig == JsonDoc(<<Run("a", DecompressLimit)>>)

-----------------------------------------------------------------------------
(* Table snapshots: run_migrations, and create_snapshot *)

\* UNIQUE(stream_id, version), and the primary key id
SnapshotsUniqueViolation(table, row) ==
    \E r \in table :
        \/ r.id = row.id
        \/ r.stream_id = row.stream_id /\ r.version = row.version

\* Uuid::new_v4() of a snapshot: unique to the task that draws it, and for
\* the scheduler to the stream and version it draws it for
SnapshotId(task, stream_id, n) == [task |-> task, stream_id |-> stream_id, n |-> n]

CreateSnapshotRequest(ids, versions, docs) ==
    [stream_id : ids, version : versions, data : docs]

NoSnapshotRequest == [stream_id |-> <<>>, version |-> 0, data |-> JsonDoc(<<>>)]

SnapOk(snapshot) == [kind |-> "Ok", message |-> <<>>, snapshot |-> <<snapshot>>]
SnapErr(kind, message) == [kind |-> kind, message |-> message, snapshot |-> <<>>]

IdleSnapshot ==
    [pc |-> "idle", request |-> NoSnapshotRequest, compressed_data |-> compress(to_vec(JsonDoc(<<>>))),
     now |-> 0, response |-> [kind |-> "None", message |-> <<>>, snapshot |-> <<>>]]

\* The row of the INSERT, and the Snapshot returned
SnapshotRow(c) ==
    [id |-> SnapshotId("api", <<>>, c),
     stream_id |-> snap[c].request.stream_id,
     version |-> snap[c].request.version,
     data |-> snap[c].compressed_data,
     created_at |-> snap[c].now]

\* The handler up to its first await: serialize, compress, snapshot_id, now
SnapBegin(c, request) ==
    /\ snap[c].pc = "idle"
    /\ \A d \in DOMAIN snap : d < c => snap[d].pc # "idle"
    /\ snap' = [snap EXCEPT ![c] =
            [@ EXCEPT !.pc = "delete", !.request = request,
                      !.compressed_data = compress(to_vec(request.data)),
                      !.now = now]]
    /\ UNCHANGED <<events, snapshots, now, app, rd, latest, sched, sweep>>

\* DELETE FROM snapshots WHERE stream_id = $1
SnapDelete(c) ==
    /\ snap[c].pc = "delete"
    /\ snapshots' = {r \in snapshots : r.stream_id # snap[c].request.stream_id}
    /\ snap' = [snap EXCEPT ![c] = [@ EXCEPT !.pc = "insert"]]
    /\ UNCHANGED <<events, now, app, rd, latest, sched, sweep>>

SnapDeleteFails(c) ==
    /\ snap[c].pc = "delete"
    /\ snap' = [snap EXCEPT ![c] =
            [@ EXCEPT !.pc = "done", !.response = SnapErr("Database", <<StorageFailureText>>)]]
    /\ UNCHANGED <<events, snapshots, now, app, rd, latest, sched, sweep>>

\* INSERT INTO snapshots: stored, or rejected by a constraint of the table
SnapInsert(c) ==
    /\ snap[c].pc = "insert"
    /\ IF SnapshotsUniqueViolation(snapshots, SnapshotRow(c))
       THEN /\ snap' = [snap EXCEPT ![c] =
                    [@ EXCEPT !.pc = "done",
                              !.response = SnapErr("Database", <<UniqueViolationText>>)]]
            /\ UNCHANGED snapshots
       ELSE /\ snapshots' = snapshots \cup {SnapshotRow(c)}
            /\ snap' = [snap EXCEPT ![c] =
                    [@ EXCEPT !.pc = "done", !.response = SnapOk(SnapshotRow(c))]]
    /\ UNCHANGED <<events, now, app, rd, latest, sched, sweep>>

SnapInsertFails(c) ==
    /\ snap[c].pc = "insert"
    /\ snap' = [snap EXCEPT ![c] =
            [@ EXCEPT !.pc = "done", !.response = SnapErr("Database", <<StorageFailureText>>)]]
    /\ UNCHANGED <<events, snapshots, now, app, rd, latest, sched, sweep>>

SnapSteps(c) ==
    \/ SnapDelete(c)
    \/ SnapDeleteFails(c)
    \/ SnapInsert(c)
    \/ SnapInsertFails(c)

-----------------------------------------------------------------------------
(* get_latest_snapshot *)

LatestOk(data) == [kind |-> "Ok", message |-> <<>>, data |-> data]
LatestErr(kind, message) == [kind |-> kind, message |-> message, data |-> None]

IdleLatest ==
    [pc |-> "idle", stream_id |-> <<>>,
     response |-> [kind |-> "None", message |-> <<>>, data |-> None]]

\* select_latest with ORDER BY version ASC
select_latest_lowest_version(table, stream_id) ==
    LET rows == OrderByVersion({r \in table : r.stream_id = stream_id}, "ASC")
    IN  IF rows = <<>> THEN None ELSE Some(rows[1])

\* SELECT data FROM snapshots WHERE stream_id = $1 ORDER BY version DESC
\* LIMIT 1, fetch_optional
select_latest(table, stream_id) ==
    LET rows == OrderByVersion({r \in table : r.stream_id = stream_id}, "DESC")
    IN  IF rows = <<>> THEN None ELSE Some(rows[1])

\* The statement of get_latest_snapshot and the decoding of its row
get_latest_snapshot(table, stream_id) ==
    LET row == select_latest(table, stream_id)
    IN  IF row = None THEN LatestOk(None)
        ELSE LET decompressed == decompress(row[1].data, DecompressLimit)
             IN  IF decompressed = None
                 THEN LatestErr("Internal", <<"Decompression failed">>)
                 ELSE LatestOk(Some(from_slice(decompressed[1])))

\* The handler up to its await: the path is extracted
LatestBegin(stream_id) ==
    /\ latest.pc = "idle"
    /\ latest' = [latest EXCEPT !.pc = "query", !.stream_id = stream_id]
    /\ UNCHANGED <<events, snapshots, now, app, rd, snap, sched, sweep>>

\* The SELECT is answered; the row is decompressed and parsed
LatestQuery ==
    /\ latest.pc = "query"
    /\ latest' = [latest EXCEPT !.pc = "done",
                      !.response = get_latest_snapshot(snapshots, latest.stream_id)]
    /\ UNCHANGED <<events, snapshots, now, app, rd, snap, sched, sweep>>

\* The SELECT fails (connection, pool, timeout)
LatestQueryFails ==
    /\ latest.pc = "query"
    /\ latest' = [latest EXCEPT !.pc = "done",
                      !.response = LatestErr("Database", <<StorageFailureText>>)]
    /\ UNCHANGED <<events, snapshots, now, app, rd, snap, sched, sweep>>

-----------------------------------------------------------------------------
(* snapshot_scheduler and rebuild_stream_state *)

\* config.snapshot_threshold (SNAPSHOT_THRESHOLD), as in scenario S6
SnapshotThreshold == 2

Streams(table) == {e.stream_id : e \in table}

streams_above_threshold(event_table, snapshot_table, threshold) ==
    {[stream_id |-> stream_id,
      current_version |-> get_stream_version(event_table, stream_id),
      snapshot_version |-> 0] : stream_id \in
        {id \in Streams(event_table) :
            /\ get_stream_version(event_table, id) > threshold
            /\ \A r \in snapshot_table : r.stream_id # id}}

\* The selection: events LEFT JOIN snapshots, GROUP BY e.stream_id, s.version,
\* HAVING MAX(e.version) - COALESCE(s.version, 0) >= $1.  One row for each
\* snapshot of a stream, or one with snapshot_version 0 when it has none.
streams_needing_snapshot(event_table, snapshot_table, threshold) ==
    LET joined(stream_id) ==
            IF \E r \in snapshot_table : r.stream_id = stream_id
            THEN {r.version : r \in {q \in snapshot_table : q.stream_id = stream_id}}
            ELSE {0}
    IN  {row \in UNION {
            {[stream_id |-> stream_id,
              current_version |-> get_stream_version(event_table, stream_id),
              snapshot_version |-> v] : v \in joined(stream_id)}
            : stream_id \in Streams(event_table)} :
         row.current_version - row.snapshot_version >= threshold}

rebuild_stream_state_all(table, stream_id, up_to_version, at) ==
    LET rows == OrderByVersion({e \in table : e.stream_id = stream_id}, "ASC")
    IN  JsonState([i \in 1..Len(rows) |-> rows[i].data], up_to_version, at)

\* SELECT data FROM events WHERE stream_id = $1 AND version <= $2 ORDER BY version
rebuild_stream_state(table, stream_id, up_to_version, at) ==
    LET rows == OrderByVersion({e \in table : /\ e.stream_id = stream_id
                                              /\ e.version <= up_to_version}, "ASC")
    IN  JsonState([i \in 1..Len(rows) |-> rows[i].data], up_to_version, at)

\* result and rows_affected: the answer of the task's last statement, the
\* selection when it failed or the INSERT of the iteration
IdleScheduler ==
    [pc |-> "sleep", streams |-> {}, stream_id |-> <<>>, version |-> 0,
     state_data |-> JsonState(<<>>, 0, 0), result |-> "none", rows_affected |-> 0]

\* interval.tick() and the selection; the rows come in no stated order
SchedTick ==
    /\ sched.pc = "sleep"
    /\ sched' = [sched EXCEPT !.pc = "loop",
                    !.result = "none",
                    !.streams = streams_needing_snapshot(events, snapshots, SnapshotThreshold)]
    /\ UNCHANGED <<events, snapshots, now, app, rd, snap, latest, sweep>>

SchedTickFailsStops ==
    /\ sched.pc = "sleep"
    /\ sched' = [sched EXCEPT !.pc = "stopped", !.result = "error"]
    /\ UNCHANGED <<events, snapshots, now, app, rd, snap, latest, sweep>>

\* The selection fails: error!, continue
SchedTickFails ==
    /\ sched.pc = "sleep"
    /\ sched' = [sched EXCEPT !.result = "error"]
    /\ UNCHANGED <<events, snapshots, now, app, rd, snap, latest, sweep>>

\* for stream in streams: rebuild_stream_state answers
SchedRebuild(stream) ==
    /\ sched.pc = "loop"
    /\ stream \in sched.streams
    /\ sched' = [sched EXCEPT !.pc = "insert",
                    !.result = "none",
                    !.rows_affected = 0,
                    !.streams = @ \ {stream},
                    !.stream_id = stream.stream_id,
                    !.version = stream.current_version,
                    !.state_data = rebuild_stream_state(events, stream.stream_id,
                                       stream.current_version, now)]
    /\ UNCHANGED <<events, snapshots, now, app, rd, snap, latest, sweep>>

SchedRebuildFailsAborts(stream) ==
    /\ sched.pc = "loop"
    /\ stream \in sched.streams
    /\ sched' = [sched EXCEPT !.streams = {}, !.result = "none", !.rows_affected = 0]
    /\ UNCHANGED <<events, snapshots, now, app, rd, snap, latest, sweep>>

\* rebuild_stream_state fails: error!, the next stream
SchedRebuildFails(stream) ==
    /\ sched.pc = "loop"
    /\ stream \in sched.streams
    /\ sched' = [sched EXCEPT !.streams = @ \ {stream}, !.result = "none",
                               !.rows_affected = 0]
    /\ UNCHANGED <<events, snapshots, now, app, rd, snap, latest, sweep>>

\* The row of the scheduler's INSERT, created_at NOW()
SchedulerRow ==
    [id |-> SnapshotId("scheduler", sched.stream_id, sched.version),
     stream_id |-> sched.stream_id,
     version |-> sched.version,
     data |-> compress(to_vec(sched.state_data)),
     created_at |-> now]

insert_snapshot_replaces(table, row) ==
    {r \in table : ~(r.stream_id = row.stream_id /\ r.version = row.version)} \cup {row}

\* INSERT ... ON CONFLICT (stream_id, version) DO NOTHING
insert_snapshot_idempotent(table, row) ==
    IF \E r \in table : r.stream_id = row.stream_id /\ r.version = row.version
    THEN table
    ELSE table \cup {row}

\* The iteration ends with the INSERT: its locals go out of scope.  The
\* statement answers Ok, with the number of rows it stored: info!
SchedInsert ==
    /\ sched.pc = "insert"
    /\ snapshots' = insert_snapshot_idempotent(snapshots, SchedulerRow)
    /\ sched' = [IdleScheduler EXCEPT !.pc = "loop", !.streams = sched.streams,
                     !.result = "ok",
                     !.rows_affected = Cardinality(snapshots') - Cardinality(snapshots)]
    /\ UNCHANGED <<events, now, app, rd, snap, latest, sweep>>

\* The INSERT fails: error!, the next stream
SchedInsertFails ==
    /\ sched.pc = "insert"
    /\ sched' = [IdleScheduler EXCEPT !.pc = "loop", !.streams = sched.streams,
                     !.result = "error"]
    /\ UNCHANGED <<events, snapshots, now, app, rd, snap, latest, sweep>>

\* The for loop ends; the task waits for its next tick
SchedSleep ==
    /\ sched.pc = "loop"
    /\ sched.streams = {}
    /\ sched' = [sched EXCEPT !.pc = "sleep", !.result = "none", !.rows_affected = 0]
    /\ UNCHANGED <<events, snapshots, now, app, rd, snap, latest, sweep>>

SchedSteps ==
    \/ SchedTick
    \/ SchedTickFails
    \/ \E stream \in sched.streams : SchedRebuild(stream)
    \/ \E stream \in sched.streams : SchedRebuildFails(stream)
    \/ SchedInsert
    \/ SchedInsertFails
    \/ SchedSleep

\* The task while storage does not fail
SchedRuns ==
    \/ SchedTick
    \/ \E stream \in sched.streams : SchedRebuild(stream)
    \/ SchedInsert
    \/ SchedSleep

-----------------------------------------------------------------------------
(* stream_archiver *)

\* config.archive_days (ARCHIVE_DAYS); the clock counts days
ArchiveDays == 1

\* WHERE created_at < $1 AND stream_id IN (SELECT stream_id FROM snapshots)
\*   AND archived = false
ToArchive(event_table, snapshot_table, archive_threshold) ==
    {e \in event_table :
        /\ e.created_at < archive_threshold
        /\ e.stream_id \in {r.stream_id : r \in snapshot_table}
        /\ e.archived = FALSE}

mark_archived_deletes(event_table, snapshot_table, archive_threshold) ==
    event_table \ ToArchive(event_table, snapshot_table, archive_threshold)

\* UPDATE events SET archived = true WHERE ...
mark_archived(event_table, snapshot_table, archive_threshold) ==
    {IF e \in ToArchive(event_table, snapshot_table, archive_threshold)
     THEN [e EXCEPT !.archived = TRUE] ELSE e : e \in event_table}

\* run_migrations creates table events without a column archived, which the
\* UPDATE names: on a database that run_migrations created the statement fails;
\* on one provisioned with the column it runs.  sweep.archived_column tells
\* which database the service was started on.
IdleSweeper(archived_column) ==
    [archived_column |-> archived_column, result |-> "none", rows_affected |-> 0]

\* interval.tick() and the UPDATE: Ok(result), info!
SweepTick ==
    /\ sweep.archived_column
    /\ LET archive_threshold == now - ArchiveDays
       IN  /\ events' = mark_archived(events, snapshots, archive_threshold)
           /\ sweep' = [sweep EXCEPT !.result = "ok",
                   !.rows_affected =
                       Cardinality(ToArchive(events, snapshots, archive_threshold))]
    /\ UNCHANGED <<snapshots, now, app, rd, snap, latest, sched>>

\* The UPDATE fails (no column archived, or connection, pool, timeout): error!
SweepTickFails ==
    /\ sweep' = [sweep EXCEPT !.result = "error", !.rows_affected = 0]
    /\ UNCHANGED <<events, snapshots, now, app, rd, snap, latest, sched>>

-----------------------------------------------------------------------------
(* The clock *)

ClockTick ==
    /\ now < MaxClock
    /\ now' = now + 1
    /\ UNCHANGED <<events, snapshots, app, rd, snap, latest, sched, sweep>>

-----------------------------------------------------------------------------
(* Initial state: after run_migrations on an empty database *)

Init ==
    /\ events = {}
    /\ snapshots = {}
    /\ now = 0
    /\ app = [p \in Appenders |-> IdleAppend]
    /\ rd = IdleRead
    /\ snap = [c \in Snapshotters |-> IdleSnapshot]
    /\ latest = IdleLatest
    /\ sched = IdleScheduler
    /\ sweep = IdleSweeper(FALSE)

\* Appends alone, with every expected_version
NextAppend ==
    \/ \E p \in Appenders :
         \E request \in AppendEventRequest(StreamIds, {"x"}, ExpectedVersions) :
            AppendBegin(p, request)
    \/ \E p \in Appenders : AppendSteps(p)

SpecAppend == Init /\ [][NextAppend]_vars

\* Appends alone, over the ids the validation is tried on
NextIds ==
    \/ \E p \in 1..NumIdAppenders :
         \E request \in AppendEventRequest(WideIds, {"x"}, {None}) :
            AppendBegin(p, request)
    \/ \E p \in 1..NumIdAppenders : AppendSteps(p)

SpecIds == Init /\ [][NextIds]_vars

\* Appends while the clock advances
NextClock ==
    \/ \E p \in Appenders :
         \E request \in AppendEventRequest(StreamIds, {"x"}, {None}) :
            AppendBegin(p, request)
    \/ \E p \in Appenders : AppendSteps(p)
    \/ ClockTick

SpecClock == Init /\ [][NextClock]_vars

FromVersions == {None, Some(2), Some(MaxFrom)}
Limits == {None, Some(-1), Some(0), Some(1), Some(MaxLimit + 1)}
Directions == {None, Some("backward")}

\* A row left by an earlier run of the service
StoredEvent(id, stream_id, version) ==
    [id |-> id, stream_id |-> stream_id, event_type |-> "Created", data |-> "y",
     metadata |-> None, version |-> version, created_at |-> 0,
     partition_key |-> get_partition_key(stream_id), archived |-> FALSE]

\* Tables that earlier appends leave: the service keeps no state of its own
\* and is restarted on the database it finds
StoredTables ==
    { {},
      {StoredEvent(101, IdA, 1), StoredEvent(102, IdA, 2), StoredEvent(103, IdPW, 1)} }

InitStored ==
    /\ events \in StoredTables
    /\ snapshots = {}
    /\ now = 0
    /\ app = [p \in Appenders |-> IdleAppend]
    /\ rd = IdleRead
    /\ snap = [c \in Snapshotters |-> IdleSnapshot]
    /\ latest = IdleLatest
    /\ sched = IdleScheduler
    /\ sweep = IdleSweeper(FALSE)

\* Appends and one read of a stream
NextRead ==
    \/ \E p \in 1..NumReadAppenders :
         \E request \in AppendEventRequest(StreamIds, {"x"}, {None}) :
            AppendBegin(p, request)
    \/ \E p \in 1..NumReadAppenders : AppendSteps(p)
    \/ \E stream_id \in StreamIds :
         \E query \in EventsQuery(FromVersions, Limits, Directions) :
            ReadBegin(stream_id, query)
    \/ ReadQuery
    \/ ReadQueryFails

SpecRead == InitStored /\ [][NextRead]_vars

\* The service on a database it finds, ArchiveDays + 1 days after the stored
\* events were written: appends, snapshot requests, the scheduler, the sweeper
InitService ==
    /\ events \in StoredTables
    /\ snapshots = {}
    /\ now = ArchiveDays + 1
    /\ app = [p \in Appenders |-> IdleAppend]
    /\ rd = IdleRead
    /\ snap = [c \in Snapshotters |-> IdleSnapshot]
    /\ latest = IdleLatest
    /\ sched = IdleScheduler
    /\ \E archived_column \in BOOLEAN : sweep = IdleSweeper(archived_column)

SnapshotVersions == {0, 2}

Next ==
    \/ \E p \in 1..NumServiceAppenders :
         \E request \in AppendEventRequest(StreamIds, {"x"}, {None}) :
            AppendBegin(p, request)
    \/ \E p \in 1..NumServiceAppenders : AppendSteps(p)
    \/ \E c \in 1..NumServiceSnapshotters :
         \E request \in CreateSnapshotRequest(StreamIds, SnapshotVersions, {DocKV}) :
            SnapBegin(c, request)
    \/ \E c \in 1..NumServiceSnapshotters : SnapSteps(c)
    \/ SchedSteps
    \/ SweepTick
    \/ SweepTickFails

Spec == InitService /\ [][Next]_vars

\* A snapshot left by an earlier run of the service
StoredSnapshot(stream_id, version, doc) ==
    [id |-> SnapshotId("stored", stream_id, version), stream_id |-> stream_id, version |-> version,
     data |-> compress(to_vec(doc)), created_at |-> 0]

DocOld == JsonDoc(<<Run("o", 1)>>)

StoredSnapshots == {StoredSnapshot(IdA, 1, DocOld)}

\* The service on a database where stream "a" has two events and a snapshot
InitSnapshots ==
    /\ events = {StoredEvent(101, IdA, 1), StoredEvent(102, IdA, 2), StoredEvent(103, IdPW, 1)}
    /\ snapshots = StoredSnapshots
    /\ now = 1
    /\ app = [p \in Appenders |-> IdleAppend]
    /\ rd = IdleRead
    /\ snap = [c \in Snapshotters |-> IdleSnapshot]
    /\ latest = IdleLatest
    /\ sched = IdleScheduler
    /\ sweep = IdleSweeper(FALSE)

\* Snapshot requests and one read of the latest snapshot of a stream
NextSnapshots ==
    \/ \E c \in Snapshotters :
         \E request \in CreateSnapshotRequest(StreamIds, SnapshotVersions, {DocKV, DocBig}) :
            SnapBegin(c, request)
    \/ \E c \in Snapshotters : SnapSteps(c)
    \/ \E stream_id \in StreamIds : LatestBegin(stream_id)
    \/ LatestQuery
    \/ LatestQueryFails

SpecSnapshots == InitSnapshots /\ [][NextSnapshots]_vars

\* Appends, snapshot requests, the scheduler, and one read of the latest
\* snapshot of a stream
NextLatest ==
    \/ \E p \in 1..NumSchedulerAppenders :
         \E request \in AppendEventRequest(StreamIds, {"x"}, {None}) :
            AppendBegin(p, request)
    \/ \E p \in 1..NumSchedulerAppenders : AppendSteps(p)
    \/ \E request \in CreateSnapshotRequest(StreamIds, SnapshotVersions, {DocKV}) :
         SnapBegin(1, request)
    \/ SnapSteps(1)
    \/ SchedSteps
    \/ \E stream_id \in StreamIds : LatestBegin(stream_id)
    \/ LatestQuery
    \/ LatestQueryFails

SpecLatest == InitStored /\ [][NextLatest]_vars

\* Appends and snapshot requests, finitely many, and the scheduler, whose
\* interval keeps ticking and whose statements storage answers
NextQuiescent ==
    \/ \E p \in 1..NumSchedulerAppenders :
         \E request \in AppendEventRequest(StreamIds, {"x"}, {None}) :
            AppendBegin(p, request)
    \/ \E p \in 1..NumSchedulerAppenders : AppendSteps(p)
    \/ \E request \in CreateSnapshotRequest(StreamIds, SnapshotVersions, {DocKV}) :
         SnapBegin(1, request)
    \/ SnapSteps(1)
    \/ SchedRuns

SpecQuiescent == InitStored /\ [][NextQuiescent]_vars /\ WF_vars(SchedRuns)

\* Appends on a database without snapshots and the scheduler, whose tick runs
\* while no append takes a step and storage does not fail
NextScheduler ==
    \/ /\ sched.pc = "sleep"
       /\ snapshots = {}
       /\ \E p \in 1..NumSchedulerAppenders :
            \E request \in AppendEventRequest(StreamIds, {"x"}, {None}) :
               AppendBegin(p, request)
    \/ /\ sched.pc = "sleep"
       /\ snapshots = {}
       /\ \E p \in 1..NumSchedulerAppenders : AppendSteps(p)
    \/ snapshots = {} /\ SchedTick
    \/ \E stream \in sched.streams : SchedRebuild(stream)
    \/ SchedInsert
    \/ SchedSleep

SpecScheduler == InitStored /\ [][NextScheduler]_vars

\* One request of each handler, with the failures of each
NextErrors ==
    \/ \E request \in AppendEventRequest({IdA, IdDollar}, {"x"}, ExpectedVersions) :
          AppendBegin(1, request)
    \/ AppendSteps(1)
    \/ \E query \in EventsQuery({None}, {None, Some(-1)}, {None}) : ReadBegin(IdA, query)
    \/ ReadQuery
    \/ ReadQueryFails
    \/ ReadDecodeFails
    \/ \E request \in CreateSnapshotRequest({IdA}, {1, 2}, {DocKV, DocBig}) :
          SnapBegin(1, request)
    \/ SnapSteps(1)
    \/ LatestBegin(IdA)
    \/ LatestQuery
    \/ LatestQueryFails

SpecErrors == InitSnapshots /\ [][NextErrors]_vars

\* The two background tasks with their failures, beside one append and one
\* snapshot request
NextBackground ==
    \/ \E request \in AppendEventRequest(StreamIds, {"x"}, {None}) : AppendBegin(1, request)
    \/ AppendSteps(1)
    \/ \E request \in CreateSnapshotRequest(StreamIds, SnapshotVersions, {DocKV}) :
          SnapBegin(1, request)
    \/ SnapSteps(1)
    \/ SchedSteps
    \/ SweepTick
    \/ SweepTickFails

SpecBackground == InitService /\ [][NextBackground]_vars

-----------------------------------------------------------------------------
(* Claims on the events table *)

\* C1: in every reachable state, whatever the interleaving of appends,
\* scheduler ticks, sweeper ticks and snapshot requests, the versions stored
\* for each stream are exactly 1..N, N the number of its rows: they start at 1
\* and have no gap and no duplicate.
C1_VersionsDense ==
    \A stream_id \in Streams(events) :
        {e.version : e \in StreamEvents(events, stream_id)}
            = 1..Cardinality(StreamEvents(events, stream_id))

\* two appends have extended a stored stream to four events, the scheduler has
\* stored a snapshot, a snapshot request was answered and the sweeper has
\* archived an event
C1_Witness ==
    /\ \E stream_id \in Streams(events) : Cardinality(StreamEvents(events, stream_id)) >= 4
    /\ \E r \in snapshots : r.id.task = "scheduler"
    /\ \E c \in DOMAIN snap : snap[c].pc = "done"
    /\ \E e \in events : e.archived

-----------------------------------------------------------------------------
(* Claims on append_event *)

\* The request of p got past the version check: p intends (stream_id, new_version)
Intends(p) ==
    \/ app[p].pc = "insert"
    \/ app[p].pc = "done" /\ app[p].current_version # None
                          /\ app[p].response.kind # "Conflict"

\* p ran its INSERT to an answer
Attempted(p) == app[p].pc = "done" /\ Intends(p)

SameIntent(p, q) ==
    /\ app[p].request.stream_id = app[q].request.stream_id
    /\ app[p].new_version = app[q].new_version

StorageFailed(p) == app[p].response.message = <<StorageFailureText>>

\* C2: two appenders that read the same current version of a stream and intend
\* the same new version never both succeed; when exactly two compete and
\* storage does not otherwise fail, exactly one succeeds and the other fails.
C2_OneWinnerPerVersion ==
    \A p, q \in Appenders :
        (p # q /\ Attempted(p) /\ Attempted(q) /\ SameIntent(p, q)) =>
            /\ ~(app[p].response.kind = "Ok" /\ app[q].response.kind = "Ok")
            /\ ( /\ ~StorageFailed(p)
                 /\ ~StorageFailed(q)
                 /\ \A r \in Appenders \ {p, q} : ~(Intends(r) /\ SameIntent(r, p)) )
               => ( (app[p].response.kind = "Ok") # (app[q].response.kind = "Ok") )

C2_Witness ==
    \E p, q \in Appenders :
        /\ p # q /\ Attempted(p) /\ Attempted(q) /\ SameIntent(p, q)
        /\ app[p].current_version = app[q].current_version
        /\ app[p].response.kind = "Ok"
        /\ app[q].response.kind # "Ok" /\ ~StorageFailed(q)

\* C3: an append whose INSERT is rejected by the unique constraint on
\* (stream_id, version) fails with the Conflict kind, HTTP 409.
C3_LoserGetsConflict ==
    \A p \in Appenders :
        ( /\ Attempted(p)
          /\ app[p].response.kind # "Ok"
          /\ ~StorageFailed(p) )
        => ( /\ app[p].response.kind = "Conflict"
             /\ StatusCode(app[p].response.kind) = 409 )

RECURSIVE Contains(_, _)
\* part occurs in message, contiguously
Contains(message, part) ==
    IF Len(message) < Len(part) THEN FALSE
    ELSE \/ SubSeq(message, 1, Len(part)) = part
         \/ Contains(Tail(message), part)

\* C4: an append with expected_version = E that reads current version V # E
\* fails with Conflict (409), its message contains "expected E, got V", and it
\* stores no event.
C4_ExpectedVersionConflict ==
    \A p \in Appenders :
        ( /\ app[p].request.expected_version # None
          /\ app[p].current_version # None
          /\ app[p].current_version # app[p].request.expected_version )
        => ( /\ app[p].pc = "done"
             /\ app[p].response.kind = "Conflict"
             /\ StatusCode(app[p].response.kind) = 409
             /\ Contains(app[p].response.message,
                    <<"expected ", IntToStr(app[p].request.expected_version[1]),
                      ", got ", IntToStr(app[p].current_version[1])>>)
             /\ app[p].response.event = <<>>
             /\ \A e \in events : e.id # p )

\* scenario S3: expected 0 on a stream at version 1
C4_Witness ==
    \E p \in Appenders :
        /\ app[p].request.expected_version = Some(0)
        /\ app[p].current_version = Some(1)
        /\ app[p].response.message =
              <<"Version conflict: ", "expected ", "0", ", got ", "1">>

\* C5: an append that succeeds with expected_version = E stores and returns an
\* event of version E + 1; an append that read an empty stream and succeeds
\* returns version 1.
C5_SuccessVersion ==
    \A p \in Appenders :
        app[p].response.kind = "Ok" =>
            /\ app[p].response.event[1] \in events
            /\ app[p].response.event[1].id = p
            /\ app[p].response.event[1].stream_id = app[p].request.stream_id
            /\ app[p].request.expected_version # None =>
                 app[p].response.event[1].version = app[p].request.expected_version[1] + 1
            /\ app[p].current_version = Some(0) =>
                 app[p].response.event[1].version = 1

\* scenario S2 under a race: expected 1 succeeds with version 2 while another
\* appender of the stream fails
C5_Witness ==
    \E p, q \in Appenders :
        /\ app[p].response.kind = "Ok"
        /\ app[p].request.expected_version = Some(1)
        /\ app[p].response.event[1].version = 2
        /\ p # q /\ SameIntent(p, q) /\ Attempted(q) /\ app[q].response.kind # "Ok"

\* The event of a request, as the table must hold it
CompleteEvent(p, e) ==
    /\ e.id = p
    /\ e.stream_id = app[p].request.stream_id
    /\ e.event_type = app[p].request.event_type
    /\ e.data = app[p].request.data
    /\ e.metadata = app[p].request.metadata
    /\ e.version = app[p].new_version
    /\ e.created_at = app[p].now

\* C6: append is never partial: a step of an append that does not return
\* success leaves the events table as it is, and the step that returns success
\* adds exactly one row, the complete event of the request.
C6_AppendNeverPartial ==
    [][\A p \in Appenders :
          app'[p] # app[p] =>
             IF app'[p].response.kind = "Ok"
             THEN \E e \in events' :
                     /\ e \notin events
                     /\ events' = events \cup {e}
                     /\ CompleteEvent(p, e)
                     /\ app'[p].response.event = <<e>>
             ELSE events' = events]_vars

C6_Witness ==
    \E p, q \in Appenders :
        /\ app[p].response.kind = "Ok"
        /\ Attempted(q) /\ StorageFailed(q)
        /\ \A e \in events : e.id # q

-----------------------------------------------------------------------------
(* Claims on the stream-id validation *)

Started(p) == app[p].pc # "idle"
Rejected(p) == app[p].pc = "done" /\ app[p].response.kind = "BadRequest"

AllowedChars(stream_id) ==
    \A c \in chars(stream_id) : is_alphanumeric(c) \/ c \in {"-", "_", "/"}

\* C7: a stream_id longer than 255 characters, or with a character other than
\* alphanumerics, '-', '_', '/', is rejected with BadRequest before any storage
\* access; an id of 255 allowed characters is accepted, one of 256 is rejected.
C7_StreamIdValidation ==
    \A p \in Appenders :
        Started(p) =>
            LET id == app[p].request.stream_id
            IN  /\ (chars_count(id) > MaxStreamIdLen \/ ~AllowedChars(id)) =>
                     /\ Rejected(p)
                     /\ StatusCode(app[p].response.kind) = 400
                     /\ app[p].current_version = None
                     /\ \A e \in events : e.id # p
                /\ (chars_count(id) = MaxStreamIdLen /\ AllowedChars(id)) => ~Rejected(p)
                /\ (chars_count(id) = MaxStreamIdLen + 1) => Rejected(p)

\* The grammar [A-Za-z0-9_\-/]{1,255}
InGrammar(stream_id) ==
    /\ chars_count(stream_id) \in 1..MaxStreamIdLen
    /\ chars(stream_id) \subseteq AsciiAlphanumeric \cup {"-", "_", "/"}

\* C8: append accepts exactly the ids of the grammar [A-Za-z0-9_\-/]{1,255};
\* no event is stored under the empty stream_id.
C8_StreamIdGrammar ==
    /\ \A p \in Appenders : Started(p) => (~Rejected(p) <=> InGrammar(app[p].request.stream_id))
    /\ \A e \in events : e.stream_id # <<>>

-----------------------------------------------------------------------------
(* Claims on get_stream_events *)

Versions(list) == [i \in 1..Len(list) |-> list[i].version]

StrictlyIncreasing(list) ==
    \A i, j \in 1..Len(list) : i < j => list[i].version < list[j].version

StrictlyDecreasing(list) ==
    \A i, j \in 1..Len(list) : i < j => list[i].version > list[j].version

Reverse(list) == [i \in 1..Len(list) |-> list[Len(list) + 1 - i]]

ReadAll(stream_id, limit, direction) ==
    get_stream_events(events, stream_id,
        [from_version |-> Some(0), limit |-> limit, direction |-> Some(direction)])

\* C9: for every stream, the forward read from from_version = 0 with a limit
\* that covers the stream is in strictly increasing version order, the backward
\* read in strictly decreasing order, and each is the reverse of the other.
C9_ForwardBackward ==
    \A stream_id \in StreamIds : \A limit \in Limits :
        query_limit(limit) >= Cardinality(StreamEvents(events, stream_id)) =>
            LET forward == ReadAll(stream_id, limit, "forward")
                backward == ReadAll(stream_id, limit, "backward")
            IN  /\ forward.kind = "Ok" /\ backward.kind = "Ok"
                /\ Len(forward.events) = Cardinality(StreamEvents(events, stream_id))
                /\ StrictlyIncreasing(forward.events)
                /\ StrictlyDecreasing(backward.events)
                /\ Reverse(forward.events) = backward.events
                /\ Reverse(backward.events) = forward.events

\* a backward read of a whole stream of three or more events has been answered
C9_Witness ==
    /\ rd.pc = "done"
    /\ rd.query.direction = Some("backward")
    /\ rd.query.from_version = None
    /\ Len(rd.response.events) >= 3
    /\ Len(rd.response.events) = Cardinality(StreamEvents(events, rd.stream_id))
    /\ ReadAll(rd.stream_id, rd.query.limit, "backward") = rd.response

\* C10: a read that storage answers, with a limit that is not negative, returns
\* only events of the stream with version >= from_version, min(limit, 1000) of
\* them or all when there are fewer, from the start of the requested order;
\* limit = 0, a from_version above the current version and a stream without
\* events each give the empty list, not an error.
C10_ReadContract ==
    [][ ( /\ rd.pc = "query"
          /\ rd'.pc = "done"
          /\ rd'.response.message # <<StorageFailureText>>
          /\ (rd.query.limit # None => rd.query.limit[1] >= 0) )
        => LET from_version == IF rd.query.from_version = None THEN 0
                               ELSE rd.query.from_version[1]
               limit == IF rd.query.limit = None THEN 100
                        ELSE IF rd.query.limit[1] > 1000 THEN 1000
                        ELSE rd.query.limit[1]
               backward == rd.query.direction = Some("backward")
               matching == {e \in events : /\ e.stream_id = rd.stream_id
                                           /\ e.version >= from_version}
               list == rd'.response.events
           IN  /\ rd'.response.kind = "Ok"
               /\ \A i \in 1..Len(list) : \E e \in matching : list[i] = Event(e)
               /\ Len(list) <= limit
               /\ Len(list) = Cardinality(matching) \/ Len(list) = limit
               /\ IF backward THEN StrictlyDecreasing(list) ELSE StrictlyIncreasing(list)
               /\ \A e \in matching : \A i \in 1..Len(list) :
                     \/ \E j \in 1..Len(list) : list[j] = Event(e)
                     \/ IF backward THEN list[i].version > e.version
                        ELSE list[i].version < e.version
               /\ rd.query.limit = Some(0) => list = <<>>
               /\ from_version > get_stream_version(events, rd.stream_id) => list = <<>>
               /\ StreamEvents(events, rd.stream_id) = {} => list = <<>>
      ]_vars

\* a backward read with limit 1 from version 2 has returned the event of
\* version 3 alone, out of the two or more that matched
C10_Witness ==
    /\ rd.pc = "done"
    /\ rd.response.kind = "Ok"
    /\ rd.query = [from_version |-> Some(2), limit |-> Some(1), direction |-> Some("backward")]
    /\ Versions(rd.response.events) = <<3>>

\* C11: the limit a read uses is in 1..1000 whatever limit was requested: a
\* requested limit of zero or less is raised to 1, so the statement never gets
\* a limit below 1 and the read does not fail because of the limit.
C11_LimitClamped ==
    rd.pc # "idle" =>
        /\ query_limit(rd.query.limit) \in 1..MaxLimit
        /\ (rd.pc = "done" /\ rd.response.message # <<StorageFailureText>>) =>
               rd.response.kind = "Ok"

\* The event is a whole event as its append stored it: every field is that of
\* a row of the table, which a request that was answered Ok wrote, or which
\* the service found stored
AsAppended(event, table, tasks) ==
    \E e \in table :
        /\ event.id = e.id
        /\ event.stream_id = e.stream_id
        /\ event.event_type = e.event_type
        /\ event.data = e.data
        /\ event.metadata = e.metadata
        /\ event.version = e.version
        /\ event.created_at = e.created_at
        /\ \/ \E stored \in StoredTables : e \in stored
           \/ /\ e.id \in Appenders
              /\ tasks[e.id].response = Ok(e)
              /\ e.stream_id = tasks[e.id].request.stream_id
              /\ e.event_type = tasks[e.id].request.event_type
              /\ e.data = tasks[e.id].request.data
              /\ e.metadata = tasks[e.id].request.metadata
              /\ e.version = tasks[e.id].new_version

\* C12: a read that races appends of its stream is consistent with a serial
\* order of the committed appends.  No step lowers the current version of a
\* stream, and the forward read from version 0 with a limit that covers the
\* stream returns the versions 1..k, k the current version of the stream at
\* the step that answers it: between the version when the read started and
\* the version when it ended.  Every event returned is a whole event as
\* appended.
C12_ReadConsistent ==
    [][ /\ \A stream_id \in StreamIds :
              get_stream_version(events', stream_id) >= get_stream_version(events, stream_id)
        /\ ( /\ rd.pc = "query"
             /\ rd'.pc = "done"
             /\ rd'.response.kind = "Ok"
             /\ rd.query.from_version = None
             /\ rd.query.direction = None
             /\ rd.query.limit \in {None, Some(MaxLimit + 1)} )
           => LET list == rd'.response.events
                  k == Len(list)
              IN  /\ Versions(list) = [i \in 1..k |-> i]
                  /\ get_stream_version(events, rd.stream_id) <= k
                  /\ k <= get_stream_version(events', rd.stream_id)
                  /\ \A i \in 1..k : list[i].stream_id = rd.stream_id
                  /\ \A i \in 1..k : AsAppended(list[i], events', app')
      ]_vars

\* a read returned the versions 1..3 of a stream, the third appended by a
\* request of this run, and an append that raced it has since stored version 4
C12_Witness ==
    /\ rd.pc = "done"
    /\ rd.response.kind = "Ok"
    /\ rd.query.from_version = None
    /\ rd.query.direction = None
    /\ Versions(rd.response.events) = <<1, 2, 3>>
    /\ rd.response.events[3].id \in Appenders
    /\ get_stream_version(events, rd.stream_id) = 4

-----------------------------------------------------------------------------
(* Claims on create_snapshot and get_latest_snapshot *)

SnapshotsOf(table, stream_id) == {r \in table : r.stream_id = stream_id}

\* C13: a read of the latest snapshot never returns null for a stream that had
\* a snapshot before any create_snapshot on it began, however the read
\* interleaves with create_snapshot requests.
C13_ReplaceAtomicForReaders ==
    \A r \in StoredSnapshots :
        (latest.pc = "done" /\ latest.stream_id = r.stream_id) =>
            latest.response # LatestOk(None)

\* The create_snapshot requests on stream_id that were started
CallsOn(stream_id) ==
    {c \in Snapshotters : snap[c].pc # "idle" /\ snap[c].request.stream_id = stream_id}

\* C14: when every create_snapshot request on a stream has been answered with
\* success, whether the requests ran one after the other or concurrently, the
\* stream has exactly one snapshot row, the row of one of the requests.
C14_OneSnapshotAfterReplace ==
    \A stream_id \in StreamIds :
        ( /\ CallsOn(stream_id) # {}
          /\ \A c \in CallsOn(stream_id) :
                snap[c].pc = "done" /\ snap[c].response.kind = "Ok" )
        => /\ Cardinality(SnapshotsOf(snapshots, stream_id)) = 1
           /\ \E c \in CallsOn(stream_id) :
                 /\ snap[c].response.kind = "Ok"
                 /\ SnapshotsOf(snapshots, stream_id) = {snap[c].response.snapshot[1]}

\* C15: a create_snapshot request that fails, alone on the service, leaves the
\* snapshot rows as they were before it.
C15_FailedReplaceKeepsSnapshots ==
    ( /\ \A c \in Snapshotters \ {1} : snap[c].pc = "idle"
      /\ snap[1].pc = "done"
      /\ snap[1].response.kind # "Ok" )
    => snapshots = StoredSnapshots

\* The step answers the read of the latest snapshot of a stream whose rows
\* are the one row that the successful create_snapshot request c stored
ReadsSnapshotOf(c) ==
    /\ latest.pc = "query"
    /\ latest'.pc = "done"
    /\ latest'.response.message # <<StorageFailureText>>
    /\ snap[c].response.kind = "Ok"
    /\ snap[c].request.stream_id = latest.stream_id
    /\ SnapshotsOf(snapshots, latest.stream_id) = {snap[c].response.snapshot[1]}

C17_SnapshotReferencesEvent ==
    \A r \in snapshots :
        /\ r.version >= 1
        /\ \E e \in events : e.stream_id = r.stream_id /\ e.version = r.version

-----------------------------------------------------------------------------
(* Claims on the immutability of events *)

\* f is the row e, but for archived
SameEvent(e, f) ==
    /\ f.id = e.id
    /\ f.stream_id = e.stream_id
    /\ f.event_type = e.event_type
    /\ f.data = e.data
    /\ f.metadata = e.metadata
    /\ f.version = e.version
    /\ f.created_at = e.created_at
    /\ f.partition_key = e.partition_key

\* C18: no step deletes an event row or changes its id, stream_id, event_type,
\* data, metadata, version or created_at; archived only goes from false to
\* true, so an archived row is left as it is by every later step; and a step
\* that is not an append's (the sweeper's, the scheduler's, a snapshot
\* request's) adds no row and changes no stream's current version.
C18_EventsImmutable ==
    [][ /\ \A e \in events :
              /\ \E f \in events' : SameEvent(e, f) /\ (e.archived => f.archived)
              /\ Cardinality({f \in events' : f.id = e.id}) = 1
              /\ e.archived => e \in events'
        /\ app' = app =>
              /\ {f.id : f \in events'} = {e.id : e \in events}
              /\ \A stream_id \in Streams(events) \cup Streams(events') :
                    get_stream_version(events', stream_id) = get_stream_version(events, stream_id)
      ]_vars

\* the sweeper archived stored events, an append then extended a stream, and
\* a later sweep ran and changed no row
C18_Witness ==
    /\ \E e \in events : e.archived
    /\ \E e \in events : ~e.archived /\ e.id \in Appenders
    /\ sweep.result = "ok"
    /\ sweep.rows_affected = 0

-----------------------------------------------------------------------------
(* Claims on the scheduler *)

\* The content of a snapshot row, decompressed and parsed
Decoded(row) == from_slice(decompress(row.data, DecompressLimit)[1])

\* The payloads of a stream, in the order of its versions
Payloads(table, stream_id) ==
    LET rows == OrderByVersion(StreamEvents(table, stream_id), "ASC")
    IN  [i \in 1..Len(rows) |-> rows[i].data]

UniqueStreamVersion(table) ==
    \A r, q \in table : (r.stream_id = q.stream_id /\ r.version = q.version) => r = q

\* C20: the scheduler's insert of a snapshot for a (stream_id, version) that
\* the table already holds is answered Ok, changes no row and leaves one row
\* for that (stream_id, version); and (stream_id, version) is unique among the
\* snapshots in every reachable state.
C20_SchedulerInsertIdempotent ==
    [][ /\ UniqueStreamVersion(snapshots) /\ UniqueStreamVersion(snapshots')
        /\ ( /\ sched.pc = "insert"
             /\ sched'.pc = "loop"
             /\ sched'.result # "error"
             /\ \E r \in snapshots :
                   r.stream_id = sched.stream_id /\ r.version = sched.version )
           => /\ sched'.result = "ok"
              /\ snapshots' = snapshots
              /\ Cardinality({r \in snapshots' : /\ r.stream_id = sched.stream_id
                                                  /\ r.version = sched.version}) = 1
      ]_vars

\* the scheduler's insert was answered Ok and stored no row: a create_snapshot
\* request had stored the (stream_id, version) while the scheduler rebuilt the
\* state of the stream
C20_Witness ==
    /\ sched.pc = "loop"
    /\ sched.result = "ok"
    /\ sched.rows_affected = 0
    /\ \E r \in snapshots : r.id.task = "api" /\ r.version = 2

-----------------------------------------------------------------------------
(* Claims on the errors of the handlers *)

\* The errors that the handlers have returned
ErrorsReturned ==
    {[kind |-> r.kind, message |-> r.message] :
        r \in {app[p].response : p \in Appenders} \cup {rd.response}
               \cup {snap[c].response : c \in Snapshotters} \cup {latest.response}}
    \ {[kind |-> k, message |-> <<>>] : k \in {"Ok", "None"}}

\* The HTTP status of each error kind, as the error table states it
StatusOfKind(kind) ==
    CASE kind = "BadRequest" -> 400
      [] kind = "Conflict" -> 409
      [] kind = "NotFound" -> 404
      [] kind = "Serialization" -> 400
      [] kind = "Database" -> 500
      [] kind = "Internal" -> 500

\* The statement failed in storage
IsStorageFailure(message) ==
    message \in {<<StorageFailureText>>, <<UniqueViolationText>>, <<NegativeLimitText>>}

-----------------------------------------------------------------------------
(* Claims on the scheduler's selection and its tick *)

\* The greatest snapshot version of a stream, 0 when it has no snapshot
GreatestSnapshotVersion(table, stream_id) ==
    IF SnapshotsOf(table, stream_id) = {} THEN 0
    ELSE Max({r.version : r \in SnapshotsOf(table, stream_id)})

\* C22: a scheduler tick selects a stream exactly when its current version
\* minus its greatest snapshot version (0 without snapshot) is at least
\* snapshot_threshold; a stream whose latest snapshot is within the threshold
\* is not selected, whatever older snapshots it has.
C22_SelectionPerStream ==
    [][ (sched.pc = "sleep" /\ sched'.pc = "loop") =>
          {row.stream_id : row \in sched'.streams} =
             {stream_id \in Streams(events) :
                 get_stream_version(events, stream_id)
                    - GreatestSnapshotVersion(snapshots, stream_id) >= SnapshotThreshold}
      ]_vars

\* The payloads of the events of a stream with versions 1..v, in that order
PayloadsUpTo(table, stream_id, v) ==
    [i \in 1..v |-> (CHOOSE e \in table : e.stream_id = stream_id /\ e.version = i).data]

\* C23: however a scheduler tick interleaves with appends, the state the
\* scheduler has rebuilt and every snapshot it has stored at a version v hold
\* the payloads of the events of versions 1..v of the stream, in ascending
\* order, v of them, and "version" = v: no event appended after the scheduler
\* read the current version is included.
C23_SchedulerSnapshotContent ==
    /\ \A r \in snapshots :
          r.id.task = "scheduler" =>
             /\ decompress(r.data, DecompressLimit) # None
             /\ Decoded(r).version = r.version
             /\ Len(Decoded(r).events) = r.version
             /\ \A i \in 1..r.version :
                   \E e \in events : e.stream_id = r.stream_id /\ e.version = i
             /\ Decoded(r).events = PayloadsUpTo(events, r.stream_id, r.version)
    /\ sched.pc = "insert" =>
          /\ sched.state_data.version = sched.version
          /\ sched.state_data.events = PayloadsUpTo(events, sched.stream_id, sched.version)

\* the scheduler has just stored its only snapshot, of version 3 with the
\* payloads "y", "y", "x", for a stream that an append has taken to version 4
\* since the selection
C23_Witness ==
    /\ sched.pc = "loop"
    /\ sched.result = "ok"
    /\ sched.rows_affected = 1
    /\ Cardinality({r \in snapshots : r.id.task = "scheduler"}) = 1
    /\ \E r \in snapshots :
          /\ r.id.task = "scheduler"
          /\ r.version = 3
          /\ Decoded(r).events = <<"y", "y", "x">>
          /\ get_stream_version(events, r.stream_id) = 4

\* C24: a failure on one stream does not abort the tick.  A step of the loop
\* that fails (the rebuild or the INSERT of a stream) leaves the scheduler in
\* its loop with every other selected stream still to be processed; the loop
\* ends only when no selected stream is left; and a stream whose rebuild and
\* INSERT are answered has its snapshot.
C24_FailureDoesNotAbortTick ==
    [][ /\ (sched.pc = "loop" /\ sched'.pc = "loop" /\ sched' # sched) =>
              \E stream \in sched.streams : sched'.streams = sched.streams \ {stream}
        /\ (sched.pc = "insert" /\ sched' # sched) =>
              /\ sched'.pc = "loop"
              /\ sched'.streams = sched.streams
              /\ sched'.result = "ok" =>
                    \E r \in snapshots' :
                       r.stream_id = sched.stream_id /\ r.version = sched.version
        /\ (sched.pc # "sleep" /\ sched'.pc = "sleep") =>
              sched.pc = "loop" /\ sched.streams = {}
      ]_vars

\* in one tick that selected both streams, the processing of stream "a"
\* failed and stream "p/w", processed after it, got its snapshot
C24_Witness ==
    /\ sched.pc = "loop"
    /\ sched.streams = {}
    /\ sched.result = "ok"
    /\ sched.rows_affected = 1
    /\ \A c \in Snapshotters : snap[c].pc = "idle"
    /\ SnapshotsOf(snapshots, IdA) = {}
    /\ \E r \in snapshots : r.stream_id = IdPW /\ r.id.task = "scheduler"
    /\ get_stream_version(events, IdA) >= SnapshotThreshold

-----------------------------------------------------------------------------
(* Claims on the background tasks *)

\* The next tick of the scheduler, whether its selection is answered or fails
SchedNextTick == SchedTick \/ SchedTickFails

\* The next tick of the sweeper, whether its UPDATE is answered or fails
SweepNextTick == SweepTick \/ SweepTickFails

\* C25: the background tasks never stop because of an error.  The scheduler
\* is always at a statement of its loop, and a tick whose selection failed
\* leaves it waiting for its next tick, which it can run; the sweeper whose
\* UPDATE failed can run its next tick; and no step of a background task,
\* failed or not, changes an HTTP request or its response.
C25_BackgroundTasksContinue ==
    [][ /\ sched.pc \in {"sleep", "loop", "insert"}
        /\ sched'.pc \in {"sleep", "loop", "insert"}
        /\ ENABLED SchedSteps
        /\ (sched.pc = "sleep" /\ sched.result = "error") => ENABLED SchedNextTick
        /\ sweep.result = "error" => ENABLED SweepNextTick
        /\ (sched' # sched \/ sweep' # sweep) =>
              app' = app /\ rd' = rd /\ snap' = snap /\ latest' = latest
      ]_vars

\* the selection of a scheduler tick and the UPDATE of a sweeper tick have
\* failed; both tasks can run their next tick, and an append and a snapshot
\* request have been answered with success
C25_Witness ==
    /\ sched.pc = "sleep"
    /\ sched.result = "error"
    /\ sweep.result = "error"
    /\ ENABLED SchedTick
    /\ ENABLED SweepNextTick
    /\ \E p \in Appenders : app[p].response.kind = "Ok"
    /\ \E c \in Snapshotters : snap[c].response.kind = "Ok"

-----------------------------------------------------------------------------
(* Claims on the sweeper *)

\* The step is a tick of the sweeper that no passing failure of storage
\* (connection, pool, timeout) has cut short
SweeperTicks ==
    /\ \/ sweep' # sweep
       \/ \E e \in events : \E f \in events' : f.id = e.id /\ f.archived # e.archived
    /\ ~(sweep'.result = "error" /\ sweep.archived_column)

\* C26: a sweeper tick with cutoff = now - archive_days sets archived on
\* exactly the events with created_at < cutoff, archived = false and a stream
\* that has a snapshot, reports their number, and leaves every other event
\* as it is.
C26_SweepMarksExactly ==
    [][ SweeperTicks =>
          LET cutoff == now - ArchiveDays
              marked == {e \in events :
                            /\ e.created_at < cutoff
                            /\ ~e.archived
                            /\ SnapshotsOf(snapshots, e.stream_id) # {}}
          IN  /\ sweep'.result = "ok"
              /\ sweep'.rows_affected = Cardinality(marked)
              /\ events' = (events \ marked) \cup {[e EXCEPT !.archived = TRUE] : e \in marked}
      ]_vars

\* C27: what a read returns does not depend on the archived flag: a read of
\* a stream returns the same list before and after any sweeper tick.
C27_ReadsIgnoreArchived ==
    [][ SweepNextTick =>
          \A stream_id \in StreamIds :
             \A query \in EventsQuery(FromVersions, Limits, Directions) :
                get_stream_events(events', stream_id, query)
                    = get_stream_events(events, stream_id, query)
      ]_vars

\* The sweeper has archived an event that a read of its stream returns
C27_Witness ==
    /\ sweep.result = "ok"
    /\ sweep.rows_affected > 0
    /\ \E e \in events :
          /\ e.archived
          /\ \E i \in 1..Len(get_stream_events(events, e.stream_id,
                                [from_version |-> None, limit |-> None,
                                 direction |-> None]).events) :
                get_stream_events(events, e.stream_id,
                                  [from_version |-> None, limit |-> None,
                                   direction |-> None]).events[i].id = e.id

-----------------------------------------------------------------------------
(* Claims on the clock *)

\* C28: with a monotone clock, created_at is non-decreasing in version within
\* a stream, also when appends run concurrently.
C28_CreatedAtMonotone ==
    \A e \in events : \A f \in events :
        (e.stream_id = f.stream_id /\ e.version < f.version)
            => e.created_at <= f.created_at

\* Two appends of one stream took the same version while the clock advanced:
\* one lost on the unique constraint, and the stream has events of two instants
C28_Witness ==
    /\ \E p \in Appenders : \E q \in Appenders :
          /\ p # q
          /\ app[p].pc = "done" /\ app[q].pc = "done"
          /\ app[p].request.stream_id = app[q].request.stream_id
          /\ app[p].new_version = app[q].new_version
          /\ app[p].now # app[q].now
          /\ app[p].response.kind = "Ok"
          /\ app[q].response.kind = "Database"
    /\ \E e \in events : \E f \in events :
          /\ e.stream_id = f.stream_id
          /\ e.version < f.version
          /\ e.created_at < f.created_at

-----------------------------------------------------------------------------
(* Claims on the latest snapshot *)

\* C29: latest_snapshot returns the content of the snapshot of greatest
\* version of the stream, also when the scheduler has stored several
\* snapshots for it, and null exactly when the stream has no snapshot.
C29_LatestIsGreatestVersion ==
    [][ (latest.pc = "query" /\ latest'.pc = "done"
            /\ latest'.response.message # <<StorageFailureText>>) =>
          LET rows == SnapshotsOf(snapshots, latest.stream_id)
          IN  /\ latest'.response.kind = "Ok"
              /\ (latest'.response.data = None) <=> (rows = {})
              /\ rows # {} =>
                    \E r \in rows :
                       /\ r.version = GreatestSnapshotVersion(snapshots, latest.stream_id)
                       /\ latest'.response.data = Some(Decoded(r))
      ]_vars

\* the read has returned the content of the scheduler's snapshot of version 4
\* of a stream that also has the scheduler's snapshot of version 2
C29_Witness ==
    /\ latest.pc = "done"
    /\ latest.response.kind = "Ok"
    /\ \E r \in SnapshotsOf(snapshots, latest.stream_id) :
          \E o \in SnapshotsOf(snapshots, latest.stream_id) :
             /\ r.id.task = "scheduler" /\ o.id.task = "scheduler"
             /\ o.version < r.version
             /\ r.version = GreatestSnapshotVersion(snapshots, latest.stream_id)
             /\ latest.response.data = Some(Decoded(r))
             /\ latest.response.data # Some(Decoded(o))

-----------------------------------------------------------------------------
(* Claims on the scheduler once the requests have stopped *)

\* Every append and create_snapshot request has been answered: table events
\* no longer changes and the scheduler alone writes table snapshots
RequestsStopped ==
    /\ \A p \in 1..NumSchedulerAppenders : app[p].pc = "done"
    /\ snap[1].pc = "done"

\* The current version of the stream exceeds its latest snapshot version by at
\* least snapshot_threshold
Exceeds(stream_id) ==
    /\ stream_id \in Streams(events)
    /\ get_stream_version(events, stream_id)
          - GreatestSnapshotVersion(snapshots, stream_id) >= SnapshotThreshold

\* C30 as stated: if appends and create_snapshot calls eventually stop and the
\* scheduler keeps ticking without storage failures, then eventually the
\* snapshot table stops changing: every stream whose current version exceeded
\* its latest snapshot version by at least snapshot_threshold has a snapshot
\* at its current version, and every later tick adds no snapshot row and
\* removes none.
C30_SchedulerConverges ==
    /\ <>[][snapshots' = snapshots]_vars
    /\ \A stream_id \in StreamIds :
          (RequestsStopped /\ Exceeds(stream_id))
             ~> (\E r \in SnapshotsOf(snapshots, stream_id) :
                    r.version = get_stream_version(events, stream_id))

\* C30, amended: under the same conditions the snapshot table eventually
\* stops changing; every stream whose current version exceeds its latest
\* snapshot version by at least snapshot_threshold when a tick begins after
\* the requests stopped gets a snapshot at its current version; in the end no
\* stream exceeds its latest snapshot version by that much, and later ticks
\* add no snapshot row and remove none.  (A tick that was running when the
\* last append was stored stores the version it had read.)
C30_SchedulerConvergesAfterTick ==
    /\ <>[][snapshots' = snapshots]_vars
    /\ \A stream_id \in StreamIds :
          (RequestsStopped /\ sched.pc = "sleep" /\ Exceeds(stream_id))
             ~> (\E r \in SnapshotsOf(snapshots, stream_id) :
                    r.version = get_stream_version(events, stream_id))
    /\ <>[](\A stream_id \in StreamIds : ~Exceeds(stream_id))

\* the requests have stopped and the scheduler, that found stream "a" at
\* version 4 with a snapshot of version 2 only, has stored one of version 4
C30_Witness ==
    /\ RequestsStopped
    /\ sched.pc = "sleep"
    /\ \E stream_id \in Streams(events) :
          /\ get_stream_version(events, stream_id) = 4
          /\ \E r \in SnapshotsOf(snapshots, stream_id) :
                r.version = 4 /\ r.id.task = "scheduler"
          /\ \E o \in SnapshotsOf(snapshots, stream_id) : o.version = 2

====
